---- MODULE Spec2Model ----
(***************************************************************************)
(* EchoListen: the import pipeline (word-timing segmenter, fallback        *)
(* slicer), the player's synchronisation engine and turn grouping, and     *)
(* the vocabulary review session.                                          *)
(*                                                                         *)
(* Two revisions of the import handler live in the repository.  The        *)
(* revision with DB_VERSION = 3 (src/views/VocabularyView.tsx:563-936) is  *)
(* modelled as variant "current"; the revision with DB_VERSION = 2         *)
(* (src/views/AddSessionView.tsx) as variant "legacy".                     *)
(*                                                                         *)
(* Times are whole seconds.  A text is a sequence of one-character         *)
(* strings, so that joining tokens and splitting a text are real           *)
(* conversions.                                                            *)
(***************************************************************************)
EXTENDS Integers, Sequences, FiniteSets, TLC

\* ------------------------------------------------------------------ bounds
MaxWords == 5
MaxTurns == 2
MaxMinutes == 1
WordDurShort == 25
WordDurLong == 40
WordGap == 5
MaxSwitches == 1
ClickSteps == 4
MaxSavedWords == 2
MaxDays == 2
MaxTurnSegments == 4

\* ------------------------------------------------------- program constants
SecondsPerMinute == 60
DefaultDuration == 300
TurnSliceCurrent == 30
TurnSliceLegacy == 45
LegacyForcedSplit == 60
LegacyMinSplit == 2
SEEK_STEP == 15
\* The speed is kept in hundredths: 1.0 is 100.
SpeedInitial == 100
SpeedStep == 25
SpeedMax == 200
SpeedMin == 50
\* lookAheadOffset = 0.08 * speed seconds, in hundredths of a second per unit
\* of speed; TimeScale turns seconds * hundredths into the same unit.
LookAhead == 8
TimeScale == 10000

\* ------------------------------------------------------------ text helpers
Space == " "

Digit(d) == CASE d = 0 -> "0" [] d = 1 -> "1" [] d = 2 -> "2" [] d = 3 -> "3"
              [] d = 4 -> "4" [] d = 5 -> "5" [] d = 6 -> "6" [] d = 7 -> "7"
              [] d = 8 -> "8" [] OTHER -> "9"

RECURSIVE NumberToString(_)
NumberToString(n) ==
  IF n < 10 THEN <<Digit(n)>>
  ELSE NumberToString(n \div 10) \o <<Digit(n % 10)>>

RECURSIVE Join(_)
Join(tokens) ==
  IF Len(tokens) = 0 THEN <<>>
  ELSE IF Len(tokens) = 1 THEN tokens[1]
  ELSE tokens[1] \o <<Space>> \o Join(Tail(tokens))

RECURSIVE TrimStart(_)
TrimStart(s) ==
  IF Len(s) > 0 /\ s[1] = Space THEN TrimStart(Tail(s)) ELSE s

RECURSIVE TrimEnd(_)
TrimEnd(s) ==
  IF Len(s) > 0 /\ s[Len(s)] = Space THEN TrimEnd(SubSeq(s, 1, Len(s) - 1)) ELSE s

Trim(s) == TrimEnd(TrimStart(s))

\* text.split(/\s+/) restricted to texts that neither start nor end with
\* whitespace; acc is the token being read.
RECURSIVE SplitFrom(_, _)
SplitFrom(s, acc) ==
  IF Len(s) = 0 THEN <<acc>>
  ELSE IF s[1] = Space
       THEN IF Len(acc) = 0 THEN SplitFrom(Tail(s), acc)
            ELSE <<acc>> \o SplitFrom(Tail(s), <<>>)
       ELSE SplitFrom(Tail(s), Append(acc, s[1]))

SplitWhitespace(s) == IF Len(Trim(s)) = 0 THEN <<>> ELSE SplitFrom(Trim(s), <<>>)

\* ------------------------------------------------------------------ inputs
SpeakerIds == {0, 1}

\* (gap before the word, duration of the word)
WordSpans == {<<0, WordDurShort>>, <<WordGap, WordDurLong>>}

WordShapes == SpeakerIds \X WordSpans

Letter(k) == CASE k = 1 -> "a" [] k = 2 -> "b" [] k = 3 -> "c" [] k = 4 -> "d"
               [] k = 5 -> "e" [] k = 6 -> "f" [] k = 7 -> "g" [] OTHER -> "h"

\* The k-th word of a response: its word is the k-th letter, and every second
\* word carries a punctuated_word (the letter and a comma).
RECURSIVE BuildWords(_, _, _)
BuildWords(shapes, k, clock) ==
  IF k > Len(shapes) THEN <<>>
  ELSE LET sh == shapes[k]
           st == clock + sh[2][1]
           en == st + sh[2][2]
       IN <<[word |-> <<Letter(k)>>,
             punctuated_word |-> IF k % 2 = 0 THEN <<Letter(k), ",">> ELSE <<>>,
             start |-> st, end |-> en, speaker |-> sh[1]]>>
          \o BuildWords(shapes, k + 1, en)

\* Deepgram responses: time-ordered, non-overlapping words.
WordSeqs ==
  { BuildWords(sh, 1, 0) : sh \in UNION { [1..n -> WordShapes] : n \in 0..MaxWords } }

\* What getAudioDuration resolves to: 0 when the metadata cannot be read.
Durations == {0, 45, 120}

Methods == {"DURATION", "TURNS"}

RuleValues(m) == IF m = "DURATION" THEN 1..MaxMinutes ELSE 1..MaxTurns

\* Segment lists a Gemini response can carry; the response is not validated,
\* and the last list has a segment with no text (text: s.text || ""), no
\* length and no speaker (0).
GeminiSegments ==
  { <<>>,
    <<[startTime |-> 0, endTime |-> 4, text |-> <<"h", "i">>, speaker |-> 1],
      [startTime |-> 4, endTime |-> 9, text |-> <<"y", "o">>, speaker |-> 2]>>,
    <<[startTime |-> 3, endTime |-> 3, text |-> <<>>, speaker |-> 0]>> }

\* Sessions the player is opened on: one whose segments tile the audio, and
\* one with a lead-in, a gap between the segments and a tail after the last.
PlayerSessions ==
  << [segments |-> <<[startTime |-> 0, endTime |-> 2, text |-> <<"a", Space, "b">>, speaker |-> 1],
                     [startTime |-> 2, endTime |-> 4, text |-> <<"c">>, speaker |-> 2],
                     [startTime |-> 4, endTime |-> 6, text |-> <<"d", "e", Space, "f">>, speaker |-> 2]>>,
      duration |-> 6],
     [segments |-> <<[startTime |-> 1, endTime |-> 3, text |-> <<"a", Space, "b">>, speaker |-> 1],
                     [startTime |-> 13, endTime |-> 15, text |-> <<"c">>, speaker |-> 2]>>,
      duration |-> 16] >>

NoSession == [segments |-> <<>>, duration |-> 0, stored |-> FALSE]

\* The closure of an init effect that has not run: no audio element.
NoEnv == [gen |-> 0 - 1, session |-> 0, isSourceReady |-> FALSE,
          isPlaying |-> FALSE]

\* ------------------------------------------------------------------- state
VARIABLES
  pc,                      \* position of handleGenerate
  variant,                 \* "current" or "legacy" revision of the handler
  method, ruleValue,       \* slicing policy chosen in the form
  isOnline, provider, hasApiKey, deepgramApiKey,
  audioDuration,
  words,                   \* the provider's word list
  i,                       \* number of words the forEach has processed
  currentTokens, currentStart, speakerChangesInSegment, lastSpeaker,
  segments,
  aiOutcome,               \* how the transcription attempt ended
  addedSession,            \* the session handed to onAdd
  session,                 \* the player's session (index into PlayerSessions)
  playbackMode, isPlaying, currentTime, activeIdx, isSourceReady,
  audioRef,                \* TRUE when audioRef.current holds the audio element
  audioTime,               \* the audio element's currentTime
  speed,                   \* playback speed, in hundredths
  audioPaused,             \* the paused attribute of the element in audioRef
  audioEnv,                \* the render the element's handlers were created in
  pendingInit,             \* init() calls waiting for getAudioFromDB
  switches,                \* number of changes of session.id since the mount
  mounted,                 \* the PlayerView instance is mounted
  savedWords,              \* the vocabulary: a review record per saved word
  now,                     \* Date.now(), in days
  testMode, testIdx, showAnswer,
  dueWords,                \* the useMemo of VocabularyView: positions in savedWords
  renderFailed,            \* the render of VocabularyView has thrown
  turnSegments,            \* the segments groupedTurns was computed from
  groupedTurns             \* the useMemo of the player's turn grouping

importVars == <<pc, variant, method, ruleValue, isOnline, provider, hasApiKey,
                deepgramApiKey, audioDuration, words, i, currentTokens,
                currentStart, speakerChangesInSegment, lastSpeaker, segments,
                aiOutcome, addedSession>>

configVars == <<variant, method, ruleValue, isOnline, provider, hasApiKey,
                deepgramApiKey>>

walkVars == <<words, i, currentTokens, currentStart, speakerChangesInSegment,
              lastSpeaker>>

playerVars == <<session, playbackMode, isPlaying, currentTime, activeIdx,
                isSourceReady, audioRef, audioTime, speed, audioPaused,
                audioEnv, pendingInit, switches, mounted>>

reviewVars == <<savedWords, now, testMode, testIdx, showAnswer, dueWords,
                renderFailed>>

turnVars == <<turnSegments, groupedTurns>>

vars == <<importVars, playerVars, reviewVars, turnVars>>

\* --------------------------------------------------------------- segmenter
Token(w) == IF Len(w.punctuated_word) > 0 THEN w.punctuated_word ELSE w.word

\* (lastSpeaker !== undefined ? lastSpeaker : 0) + 1; diarized responses
\* always carry a speaker.
SpeakerField(s) == s + 1

SegmentId(n) == <<"seg", n>>

\* The split condition of the current revision, evaluated before the word is
\* added; changes is the counter after this word's speaker change was counted.
ShouldSplitLate(m, rule, segmentDur, speakerChanged, changes) ==
  IF m = "DURATION" THEN segmentDur >= rule * SecondsPerMinute
  ELSE IF m = "TURNS" /\ speakerChanged THEN changes > rule
  ELSE FALSE

ShouldSplitWrongUnit(m, rule, segmentDur, speakerChanged, changes) ==
  IF m = "DURATION" THEN segmentDur >= rule * SecondsPerMinute * SecondsPerMinute
  ELSE IF m = "TURNS" /\ speakerChanged THEN changes >= rule
  ELSE FALSE

ShouldSplit(m, rule, segmentDur, speakerChanged, changes) ==
  IF m = "DURATION" THEN segmentDur >= rule * SecondsPerMinute
  ELSE IF m = "TURNS" /\ speakerChanged THEN changes >= rule
  ELSE FALSE

\* The segment pushed when the pending segment is closed before word w
\* (prev is the word before w).
ClosedSegmentAtTrigger(segs, start, prev, w, tokens, last) ==
  [id |-> SegmentId(Len(segs)), startTime |-> start, endTime |-> w.end,
   text |-> Trim(Join(tokens)), speaker |-> SpeakerField(last)]

ClosedSegmentTriggerSpeaker(segs, start, prev, w, tokens, last) ==
  [id |-> SegmentId(Len(segs)), startTime |-> start, endTime |-> prev.end,
   text |-> Trim(Join(tokens)), speaker |-> SpeakerField(w.speaker)]

ClosedSegment(segs, start, prev, w, tokens, last) ==
  [id |-> SegmentId(Len(segs)), startTime |-> start, endTime |-> prev.end,
   text |-> Trim(Join(tokens)), speaker |-> SpeakerField(last)]

\* The segment pushed after the last word w.
FinalSegment(segs, start, w, tokens, last) ==
  [id |-> SegmentId(Len(segs)), startTime |-> start, endTime |-> w.end,
   text |-> Trim(Join(tokens)), speaker |-> SpeakerField(last)]

\* Is the pending segment pushed after word number n of ws?
FlushNowSkipped(n, ws, tokens) == FALSE

FlushNow(n, ws, tokens) == n = Len(ws) /\ Len(tokens) > 0

\* The catch block of the AI try: the legacy revision clears segments.
CatchSegments(v, segs) == IF v = "legacy" THEN <<>> ELSE segs

CanUseAI ==
  isOnline /\ (  (provider = "gemini" /\ hasApiKey)
              \/ (provider = "deepgram" /\ deepgramApiKey))

\* -------------------------------------------------------- fallback slicer
AssumedDurationNoDefault(d) == d

AssumedDuration(d) == IF d # 0 THEN d ELSE DefaultDuration

SliceSize(v, m, rule) ==
  IF m = "DURATION" THEN rule * SecondsPerMinute
  ELSE IF v = "legacy" THEN TurnSliceLegacy ELSE TurnSliceCurrent

Min(a, b) == IF a < b THEN a ELSE b

PlaceholderText(v, t) ==
  <<"[", "A", "u", "d", "i", "o", Space>>
  \o (IF v = "legacy" THEN <<"C", "o", "n", "t", "e", "n", "t", ":", Space>>
      ELSE <<"S", "e", "c", "t", "i", "o", "n", ":", Space>>)
  \o NumberToString(t \div SecondsPerMinute) \o <<"m", Space>>
  \o NumberToString(t % SecondsPerMinute) \o <<"s", "]">>

RECURSIVE FallbackSliceNoClamp(_, _, _, _)
FallbackSliceNoClamp(v, t, dur, sliceSize) ==
  IF t < dur
  THEN <<[id |-> <<"manual", t>>, startTime |-> t,
          endTime |-> t + sliceSize,
          text |-> PlaceholderText(v, t), speaker |-> 1]>>
       \o FallbackSliceNoClamp(v, t + sliceSize, dur, sliceSize)
  ELSE <<>>

RECURSIVE FallbackSlice(_, _, _, _)
FallbackSlice(v, t, dur, sliceSize) ==
  IF t < dur
  THEN <<[id |-> <<"manual", t>>, startTime |-> t,
          endTime |-> Min(t + sliceSize, dur),
          text |-> PlaceholderText(v, t), speaker |-> 1]>>
       \o FallbackSlice(v, t + sliceSize, dur, sliceSize)
  ELSE <<>>

\* ------------------------------------------------------------- the import
\* The vocabulary while no VocabularyView is mounted; no turns are grouped.
ReviewUnmounted ==
  /\ turnSegments = <<>>
  /\ groupedTurns = <<>>
  /\ savedWords = <<>>
  /\ now = 0
  /\ testMode = FALSE
  /\ testIdx = 0
  /\ showAnswer = FALSE
  /\ dueWords = <<>>
  /\ renderFailed = FALSE

\* The player's state while no player is mounted (its useState defaults).
PlayerUnmounted ==
  /\ session = 1
  /\ playbackMode = "LIST_LOOP"
  /\ isPlaying = FALSE
  /\ currentTime = 0
  /\ activeIdx = 0
  /\ isSourceReady = FALSE
  /\ audioRef = FALSE
  /\ audioTime = 0
  /\ speed = SpeedInitial
  /\ audioPaused = TRUE
  /\ audioEnv = NoEnv
  /\ pendingInit = {}
  /\ switches = 0
  /\ mounted = FALSE

ImportInit ==
  /\ pc = "idle"
  /\ variant \in {"current", "legacy"}
  /\ method \in Methods
  /\ ruleValue \in RuleValues(method)
  /\ isOnline \in BOOLEAN
  /\ provider \in {"gemini", "deepgram"}
  /\ hasApiKey \in BOOLEAN
  /\ deepgramApiKey \in BOOLEAN
  /\ (provider = "gemini" => ~deepgramApiKey)
  /\ (provider = "deepgram" => ~hasApiKey)
  /\ audioDuration = 0
  /\ words = <<>>
  /\ i = 0
  /\ currentTokens = <<>>
  /\ currentStart = 0
  /\ speakerChangesInSegment = 0
  /\ lastSpeaker = 0
  /\ segments = <<>>
  /\ aiOutcome = "none"
  /\ addedSession = NoSession
  /\ PlayerUnmounted
  /\ ReviewUnmounted

\* Click on the button, up to the end of `await getAudioDuration`.
Generate ==
  /\ pc = "idle"
  /\ \E d \in Durations : audioDuration' = d
  /\ segments' = <<>>
  /\ IF CanUseAI
     THEN /\ pc' = IF provider = "deepgram" THEN "fetch" ELSE "gemini"
          /\ aiOutcome' = aiOutcome
     ELSE /\ pc' = "fallback"
          /\ aiOutcome' = "skipped"
  /\ UNCHANGED <<configVars, walkVars, addedSession>>
  /\ UNCHANGED <<playerVars, reviewVars, turnVars>>

\* fetch rejects, or the response is not ok: the catch block runs.
FetchFails ==
  /\ pc = "fetch"
  /\ segments' = CatchSegments(variant, segments)
  /\ aiOutcome' = "threw"
  /\ pc' = "fallback"
  /\ UNCHANGED <<configVars, walkVars, audioDuration, addedSession>>
  /\ UNCHANGED <<playerVars, reviewVars, turnVars>>

\* The response arrives; the walk's locals are set up when it has words.
FetchOk ==
  /\ pc = "fetch"
  /\ \E ws \in WordSeqs :
       /\ words' = ws
       /\ IF Len(ws) > 0
          THEN /\ currentTokens' = <<>>
               /\ currentStart' = ws[1].start
               /\ speakerChangesInSegment' = 0
               /\ lastSpeaker' = ws[1].speaker
               /\ pc' = "walk"
               /\ aiOutcome' = aiOutcome
          ELSE /\ UNCHANGED <<currentTokens, currentStart, speakerChangesInSegment,
                              lastSpeaker>>
               /\ pc' = "fallback"
               /\ aiOutcome' = "empty"
  /\ i' = 0
  /\ UNCHANGED <<configVars, audioDuration, segments, addedSession>>
  /\ UNCHANGED <<playerVars, reviewVars, turnVars>>

\* The walk's locals go out of scope when the walk is left.
WalkLocalsGone ==
  /\ i' = 0
  /\ currentTokens' = <<>>
  /\ currentStart' = 0
  /\ speakerChangesInSegment' = 0
  /\ lastSpeaker' = 0

\* One iteration of words.forEach, current revision.
WalkWord ==
  /\ pc = "walk"
  /\ variant = "current"
  /\ i < Len(words)
  /\ LET w == words[i + 1]
         speakerChanged == i > 0 /\ w.speaker # lastSpeaker
         segmentDur == w.end - currentStart
         changes == IF method = "TURNS" /\ speakerChanged
                    THEN speakerChangesInSegment + 1
                    ELSE speakerChangesInSegment
         split == ShouldSplit(method, ruleValue, segmentDur, speakerChanged, changes)
                  /\ Len(currentTokens) > 0
         segs1 == IF split
                  THEN Append(segments,
                         ClosedSegment(segments, currentStart, words[i], w,
                                       currentTokens, lastSpeaker))
                  ELSE segments
         tokens1 == IF split THEN <<>> ELSE currentTokens
         start1 == IF split THEN w.start ELSE currentStart
         changes1 == IF split THEN 0 ELSE changes
         tokens2 == Append(tokens1, Token(w))
     IN /\ currentTokens' = tokens2
        /\ currentStart' = start1
        /\ speakerChangesInSegment' = changes1
        /\ lastSpeaker' = w.speaker
        /\ segments' = IF FlushNow(i + 1, words, tokens2)
                       THEN Append(segs1,
                              FinalSegment(segs1, start1, w, tokens2, w.speaker))
                       ELSE segs1
        /\ i' = i + 1
        /\ IF i + 1 = Len(words)
           THEN pc' = "fallback" /\ aiOutcome' = "ok"
           ELSE pc' = "walk" /\ aiOutcome' = aiOutcome
  /\ UNCHANGED <<configVars, words, audioDuration, addedSession>>
  /\ UNCHANGED <<playerVars, reviewVars, turnVars>>

\* The split condition of the legacy revision, evaluated after the word was
\* added and its speaker change counted.
ShouldSplitLegacy(m, rule, segmentDur, turnCounter, isLast) ==
  \/ (m = "DURATION" /\ segmentDur >= rule * SecondsPerMinute)
  \/ (m = "TURNS" /\ (turnCounter >= rule \/ segmentDur >= LegacyForcedSplit)
      /\ segmentDur > LegacyMinSplit)
  \/ isLast

\* One iteration of words.forEach, legacy revision (turnCounter is kept in
\* speakerChangesInSegment).
WalkWordLegacy ==
  /\ pc = "walk"
  /\ variant = "legacy"
  /\ i < Len(words)
  /\ LET w == words[i + 1]
         tokens1 == Append(currentTokens, Token(w))
         turnCounter == IF w.speaker # lastSpeaker
                        THEN speakerChangesInSegment + 1
                        ELSE speakerChangesInSegment
         segmentDur == w.end - currentStart
         isLast == i + 1 = Len(words)
         split == ShouldSplitLegacy(method, ruleValue, segmentDur, turnCounter, isLast)
     IN /\ segments' = IF split
                       THEN Append(segments,
                              [id |-> SegmentId(Len(segments)),
                               startTime |-> currentStart, endTime |-> w.end,
                               text |-> Join(tokens1),
                               speaker |-> SpeakerField(w.speaker)])
                       ELSE segments
        /\ IF isLast
           THEN /\ WalkLocalsGone
                /\ pc' = "fallback"
                /\ aiOutcome' = "ok"
           ELSE /\ lastSpeaker' = w.speaker
                /\ currentTokens' = IF split THEN <<>> ELSE tokens1
                /\ currentStart' = IF split THEN words[i + 2].start ELSE currentStart
                /\ speakerChangesInSegment' = IF split THEN 0 ELSE turnCounter
                /\ i' = i + 1
                /\ pc' = "walk"
                /\ aiOutcome' = aiOutcome
  /\ UNCHANGED <<configVars, words, audioDuration, addedSession>>
  /\ UNCHANGED <<playerVars, reviewVars, turnVars>>

\* The next entry of the word list is not an object (null): reading its
\* fields throws inside forEach and the catch block runs.
WalkThrows ==
  /\ pc = "walk"
  /\ i < Len(words)
  /\ segments' = CatchSegments(variant, segments)
  /\ aiOutcome' = "threw"
  /\ pc' = "fallback"
  /\ WalkLocalsGone
  /\ words' = <<>>
  /\ UNCHANGED <<configVars, audioDuration, addedSession>>
  /\ UNCHANGED <<playerVars, reviewVars, turnVars>>

\* FileReader, generateContent or JSON.parse throws.
GeminiThrows ==
  /\ pc = "gemini"
  /\ segments' = CatchSegments(variant, segments)
  /\ aiOutcome' = "threw"
  /\ pc' = "fallback"
  /\ UNCHANGED <<configVars, walkVars, audioDuration, addedSession>>
  /\ UNCHANGED <<playerVars, reviewVars, turnVars>>

\* The response parses; its segments get ids seg-0, seg-1, ...
GeminiResult ==
  /\ pc = "gemini"
  /\ \E gs \in GeminiSegments :
       /\ segments' = [k \in 1..Len(gs) |->
                         [id |-> SegmentId(k - 1), startTime |-> gs[k].startTime,
                          endTime |-> gs[k].endTime, text |-> gs[k].text,
                          speaker |-> gs[k].speaker]]
       /\ aiOutcome' = IF Len(gs) = 0 THEN "empty" ELSE "ok"
  /\ pc' = "fallback"
  /\ UNCHANGED <<configVars, walkVars, audioDuration, addedSession>>
  /\ UNCHANGED <<playerVars, reviewVars, turnVars>>

\* if (!segments || segments.length === 0) { ...manual slicing... }
Fallback ==
  /\ pc = "fallback"
  /\ segments' = IF Len(segments) = 0
                 THEN FallbackSlice(variant, 0, AssumedDuration(audioDuration),
                                    SliceSize(variant, method, ruleValue))
                 ELSE segments
  /\ pc' = "save"
  /\ words' = <<>>
  /\ UNCHANGED <<configVars, i, currentTokens, currentStart,
                 speakerChangesInSegment, lastSpeaker, audioDuration, aiOutcome,
                 addedSession>>
  /\ UNCHANGED <<playerVars, reviewVars, turnVars>>

SessionDuration(d, segs) ==
  IF d # 0 THEN d ELSE IF Len(segs) > 0 THEN segs[Len(segs)].endTime ELSE 0

\* saveAudioToDB resolves and onAdd receives the session.
SaveOk ==
  /\ pc = "save"
  /\ addedSession' = [segments |-> segments,
                      duration |-> SessionDuration(audioDuration, segments),
                      stored |-> TRUE]
  /\ pc' = "done"
  /\ UNCHANGED <<configVars, walkVars, audioDuration, segments, aiOutcome>>
  /\ UNCHANGED <<playerVars, reviewVars, turnVars>>

\* saveAudioToDB rejects: the outer catch alerts and nothing is added.
SaveFails ==
  /\ pc = "save"
  /\ pc' = "failed"
  /\ UNCHANGED <<configVars, walkVars, audioDuration, segments, aiOutcome,
                 addedSession>>
  /\ UNCHANGED <<playerVars, reviewVars, turnVars>>

Next ==
  \/ Generate
  \/ FetchFails
  \/ FetchOk
  \/ WalkWord
  \/ WalkWordLegacy
  \/ WalkThrows
  \/ GeminiThrows
  \/ GeminiResult
  \/ Fallback
  \/ SaveOk
  \/ SaveFails

Init == ImportInit

Spec == Init /\ [][Next]_vars

\* -------------------------------------------------------------- the player
Segments == PlayerSessions[session].segments

Duration == PlayerSessions[session].duration

\* The segments seen by the handlers of the element in audioRef: those of the
\* render in which its init effect ran.
EnvSegments == PlayerSessions[audioEnv.session].segments

\* The length of the media loaded in the element in audioRef.
MediaDuration ==
  IF audioRef THEN PlayerSessions[audioEnv.session].duration ELSE 0

\* stateRef.current: the effect copies the state into it after every render.
StateRef == [activeIdx |-> activeIdx, currentTime |-> currentTime,
             segments |-> Segments, playbackMode |-> playbackMode]

\* HTMLMediaElement clamps an assigned currentTime to [0, duration].
ClampTime(t) ==
  IF t < 0 THEN 0 ELSE IF t > MediaDuration THEN MediaDuration ELSE t

\* The audio element in audioRef is playing.
AudioPlaying == audioRef /\ ~audioPaused

\* The play/pause effect (dependencies isPlaying, isSourceReady, speed), run
\* with the state of the new render: the element's paused attribute and its
\* clock afterwards.  play() on a paused element that has reached its end
\* starts again from the beginning.
EffectPaused(ready, playing) ==
  IF audioRef /\ ready THEN ~playing ELSE audioPaused

EffectTime(ready, playing, t) ==
  IF audioRef /\ ready /\ playing /\ audioPaused /\ t = MediaDuration
  THEN 0 ELSE t

\* segments.findIndex(s => time >= s.startTime && time < s.endTime): the first
\* matching 0-based index, or -1.
FindIndex(segs, time) ==
  LET hits == {k \in 0..(Len(segs) - 1) :
                 time >= segs[k + 1].startTime /\ time < segs[k + 1].endTime}
  IN IF hits = {} THEN 0 - 1
     ELSE CHOOSE k \in hits : \A h \in hits : k <= h

\* The activeIdx the tick leaves behind; a comparison with a field of a
\* missing segment (undefined) is false.
TickActiveIdxNoGuard(segs, idx, time) ==
  IF idx < Len(segs)
     /\ (time < segs[idx + 1].startTime \/ time >= segs[idx + 1].endTime)
  THEN FindIndex(segs, time)
  ELSE idx

TickActiveIdxNeighbour(segs, idx, time) ==
  IF idx < Len(segs)
     /\ (time < segs[idx + 1].startTime \/ time >= segs[idx + 1].endTime)
  THEN IF idx + 1 < Len(segs) THEN idx + 1 ELSE idx
  ELSE idx

TickActiveIdx(segs, idx, time) ==
  IF idx < Len(segs)
     /\ (time < segs[idx + 1].startTime \/ time >= segs[idx + 1].endTime)
  THEN LET newIdx == FindIndex(segs, time)
       IN IF newIdx # 0 - 1 /\ newIdx # idx THEN newIdx ELSE idx
  ELSE idx

\* The branch audio.onended takes for the mode, the active index and the
\* number of segments read from stateRef.
EndedBranchAlwaysRepeat(mode, idx, n) ==
  IF mode = "LIST_LOOP" /\ idx < n - 1 THEN "jump" ELSE "repeat"

EndedBranch(mode, idx, n) ==
  IF mode = "LIST_LOOP" /\ idx < n - 1 THEN "jump"
  ELSE IF mode = "SINGLE_LOOP" THEN "repeat"
  ELSE "stop"

\* The clock time jumpToSegment seeks to.
JumpTargetEnd(segs, idx) == segs[idx + 1].endTime

JumpTarget(segs, idx) == segs[idx + 1].startTime

\* The clock time of a click at the fraction k / n of the progress bar, in
\* whole seconds.
SeekByClickUnscaled(k, n, duration) == k \div n

SeekByClick(k, n, duration) == (k * duration) \div n

\* The speed button.
NextSpeedNoWrap(s) == s + SpeedStep

NextSpeed(s) == IF s >= SpeedMax THEN SpeedMin ELSE s + SpeedStep

\* segment.text.trim().split(/\s+/): a text of whitespace only gives one
\* empty token.
TextTokens(text) ==
  IF Len(Trim(text)) = 0 THEN << <<>> >> ELSE SplitFrom(Trim(text), <<>>)

\* charCounts[1..k] summed: each token weighs its length plus one.
RECURSIVE CumWeight(_, _)
CumWeight(tokens, k) ==
  IF k = 0 THEN 0 ELSE CumWeight(tokens, k - 1) + Len(tokens[k]) + 1

\* Math.max(0, Math.min(1, num / den)) as a numerator over den.
Clamp01(num, den) == IF num < 0 THEN 0 ELSE IF num > den THEN den ELSE num

\* activeTokenIdx for the segment list, the active index, the current time in
\* seconds and the speed in hundredths.  progress <= weight / total is
\* compared as exact fractions.
ActiveTokenIdxPastEnd(segs, idx, time, spd) ==
  IF idx < 0 \/ idx >= Len(segs) THEN 0 - 1
  ELSE LET segment == segs[idx + 1]
       IN IF Len(segment.text) = 0 THEN 0 - 1
          ELSE LET tokens == TextTokens(segment.text)
                   segmentDuration == segment.endTime - segment.startTime
                   den == segmentDuration * TimeScale
                   progress == Clamp01((time - segment.startTime) * TimeScale
                                         + LookAhead * spd, den)
                   totalChars == CumWeight(tokens, Len(tokens))
                   hits == {k \in 1..Len(tokens) :
                              progress * totalChars < CumWeight(tokens, k) * den}
               IN IF segmentDuration <= 0 THEN 0
                  ELSE IF hits = {} THEN Len(tokens)
                  ELSE (CHOOSE k \in hits : \A h \in hits : k <= h) - 1

ActiveTokenIdxFromEnd(segs, idx, time, spd) ==
  IF idx < 0 \/ idx >= Len(segs) THEN 0 - 1
  ELSE LET segment == segs[idx + 1]
       IN IF Len(segment.text) = 0 THEN 0 - 1
          ELSE LET tokens == TextTokens(segment.text)
                   segmentDuration == segment.endTime - segment.startTime
                   den == segmentDuration * TimeScale
                   progress == Clamp01((time - segment.startTime) * TimeScale
                                         + LookAhead * spd, den)
                   totalChars == CumWeight(tokens, Len(tokens))
                   hits == {k \in 1..Len(tokens) :
                              progress * totalChars <= CumWeight(tokens, k) * den}
               IN IF segmentDuration <= 0 THEN 0
                  ELSE IF hits = {} THEN Len(tokens) - 1
                  ELSE Len(tokens) - (CHOOSE k \in hits : \A h \in hits : k <= h)

ActiveTokenIdx(segs, idx, time, spd) ==
  IF idx < 0 \/ idx >= Len(segs) THEN 0 - 1
  ELSE LET segment == segs[idx + 1]
       IN IF Len(segment.text) = 0 THEN 0 - 1
          ELSE LET tokens == TextTokens(segment.text)
                   segmentDuration == segment.endTime - segment.startTime
                   den == segmentDuration * TimeScale
                   progress == Clamp01((time - segment.startTime) * TimeScale
                                         + LookAhead * spd, den)
                   totalChars == CumWeight(tokens, Len(tokens))
                   hits == {k \in 1..Len(tokens) :
                              progress * totalChars <= CumWeight(tokens, k) * den}
               IN IF segmentDuration <= 0 THEN 0
                  ELSE IF hits = {} THEN Len(tokens) - 1
                  ELSE (CHOOSE k \in hits : \A h \in hits : k <= h) - 1

\* The useMemo value of the current render.
activeTokenIdx == ActiveTokenIdx(Segments, activeIdx, currentTime, speed)

\* The player is mounted on a session; its init effect has called init().
PlayerInit ==
  /\ pc = "idle"
  /\ variant = "current"
  /\ method = "TURNS"
  /\ ruleValue = 1
  /\ isOnline = TRUE
  /\ provider = "gemini"
  /\ hasApiKey = FALSE
  /\ deepgramApiKey = FALSE
  /\ audioDuration = 0
  /\ words = <<>>
  /\ i = 0
  /\ currentTokens = <<>>
  /\ currentStart = 0
  /\ speakerChangesInSegment = 0
  /\ lastSpeaker = 0
  /\ segments = <<>>
  /\ aiOutcome = "none"
  /\ addedSession = NoSession
  /\ session \in 1..Len(PlayerSessions)
  /\ playbackMode = "LIST_LOOP"
  /\ isPlaying = FALSE
  /\ currentTime = 0
  /\ activeIdx = 0
  /\ isSourceReady = FALSE
  /\ audioRef = FALSE
  /\ audioTime = 0
  /\ speed = SpeedInitial
  /\ audioPaused = TRUE
  /\ audioEnv = NoEnv
  /\ pendingInit = {[gen |-> 0, session |-> session, isSourceReady |-> FALSE,
                     isPlaying |-> FALSE]}
  /\ switches = 0
  /\ mounted = TRUE
  /\ ReviewUnmounted

\* getAudioFromDB resolves with the blob: the element of that init() call
\* becomes audioRef.current, with the handlers of its own render.
AudioLoaded ==
  /\ \E p \in pendingInit :
       /\ audioEnv' = p
       /\ pendingInit' = pendingInit \ {p}
  /\ audioRef' = TRUE
  /\ audioTime' = 0
  /\ audioPaused' = TRUE
  /\ UNCHANGED <<session, playbackMode, isPlaying, currentTime, activeIdx,
                 isSourceReady, speed, switches, mounted>>
  /\ UNCHANGED <<importVars, reviewVars, turnVars>>

\* getAudioFromDB resolves without a blob: init() does nothing.
AudioMissing ==
  /\ \E p \in pendingInit : pendingInit' = pendingInit \ {p}
  /\ UNCHANGED <<session, playbackMode, isPlaying, currentTime, activeIdx,
                 isSourceReady, audioRef, audioTime, speed, audioPaused,
                 audioEnv, switches, mounted>>
  /\ UNCHANGED <<importVars, reviewVars, turnVars>>

\* audio.oncanplay
CanPlay ==
  /\ mounted
  /\ audioRef
  /\ ~isSourceReady
  /\ isSourceReady' = TRUE
  /\ audioPaused' = EffectPaused(TRUE, isPlaying)
  /\ audioTime' = EffectTime(TRUE, isPlaying, audioTime)
  /\ UNCHANGED <<session, playbackMode, isPlaying, currentTime, activeIdx,
                 audioRef, speed, audioEnv, pendingInit, switches, mounted>>
  /\ UNCHANGED <<importVars, reviewVars, turnVars>>

\* The play button; it is disabled until the source is ready.
TogglePlay ==
  /\ mounted
  /\ isSourceReady
  /\ isPlaying' = ~isPlaying
  /\ audioPaused' = EffectPaused(isSourceReady, ~isPlaying)
  /\ audioTime' = EffectTime(isSourceReady, ~isPlaying, audioTime)
  /\ UNCHANGED <<session, playbackMode, currentTime, activeIdx, isSourceReady,
                 audioRef, speed, audioEnv, pendingInit, switches, mounted>>
  /\ UNCHANGED <<importVars, reviewVars, turnVars>>

\* The loop-mode button.
TogglePlaybackMode ==
  /\ mounted
  /\ playbackMode' = IF playbackMode = "LIST_LOOP" THEN "SINGLE_LOOP"
                     ELSE "LIST_LOOP"
  /\ UNCHANGED <<session, isPlaying, currentTime, activeIdx, isSourceReady,
                 audioRef, audioTime, speed, audioPaused, audioEnv,
                 pendingInit, switches, mounted>>
  /\ UNCHANGED <<importVars, reviewVars, turnVars>>

\* The speed button; the play/pause effect runs again.
CycleSpeed ==
  /\ mounted
  /\ speed' = NextSpeed(speed)
  /\ audioPaused' = EffectPaused(isSourceReady, isPlaying)
  /\ audioTime' = EffectTime(isSourceReady, isPlaying, audioTime)
  /\ UNCHANGED <<session, playbackMode, isPlaying, currentTime, activeIdx,
                 isSourceReady, audioRef, audioEnv, pendingInit, switches,
                 mounted>>
  /\ UNCHANGED <<importVars, reviewVars, turnVars>>

\* The audio element plays on by one second.
Advance ==
  /\ AudioPlaying
  /\ audioTime < MediaDuration
  /\ audioTime' = audioTime + 1
  /\ UNCHANGED <<session, playbackMode, isPlaying, currentTime, activeIdx,
                 isSourceReady, audioRef, speed, audioPaused, audioEnv,
                 pendingInit, switches, mounted>>
  /\ UNCHANGED <<importVars, reviewVars, turnVars>>

\* The guard of jumpToSegment: if (audioRef.current && isSourceReady)
JumpGuardNoReady(ref, ready) == ref

JumpGuard(ref, ready) == ref /\ ready

\* The element reaches the end of its media: it pauses and fires `ended`.
\* audio.onended reads stateRef, but its jumpToSegment is the one of the
\* render in which the init effect ran (audioEnv).  After the unmount the
\* handler still drives the element, and React drops its state updates.
Ended ==
  /\ AudioPlaying
  /\ audioTime = MediaDuration
  /\ LET branch == EndedBranch(StateRef.playbackMode, StateRef.activeIdx,
                               Len(StateRef.segments))
         idx == StateRef.activeIdx
     IN IF branch = "jump" /\ JumpGuard(audioRef, audioEnv.isSourceReady)
           /\ idx + 1 < Len(EnvSegments)
        THEN LET playing == IF ~audioEnv.isPlaying /\ mounted THEN TRUE
                            ELSE isPlaying
                 t == ClampTime(JumpTarget(EnvSegments, idx + 1))
             IN /\ activeIdx' = (IF mounted THEN idx + 1 ELSE activeIdx)
                /\ isPlaying' = playing
                /\ audioPaused' = (IF playing # isPlaying
                                   THEN EffectPaused(isSourceReady, playing)
                                   ELSE TRUE)
                /\ audioTime' = t
        ELSE IF branch = "repeat" /\ idx < Len(StateRef.segments)
        THEN /\ audioTime' = ClampTime(StateRef.segments[idx + 1].startTime)
             /\ audioPaused' = FALSE
             /\ UNCHANGED <<activeIdx, isPlaying>>
        ELSE IF branch = "stop"
        THEN /\ isPlaying' = (IF mounted THEN FALSE ELSE isPlaying)
             /\ audioPaused' = TRUE
             /\ UNCHANGED <<activeIdx, audioTime>>
        ELSE \* a stale jumpToSegment that does nothing, or a TypeError
             /\ audioPaused' = TRUE
             /\ UNCHANGED <<activeIdx, isPlaying, audioTime>>
  /\ UNCHANGED <<session, playbackMode, currentTime, isSourceReady, audioRef,
                 speed, audioEnv, pendingInit, switches, mounted>>
  /\ UNCHANGED <<importVars, reviewVars, turnVars>>

\* One animation frame of sync.
Tick ==
  /\ mounted
  /\ IF audioRef /\ isPlaying
     THEN /\ currentTime' = audioTime
          /\ activeIdx' = TickActiveIdx(StateRef.segments, StateRef.activeIdx,
                                        audioTime)
     ELSE UNCHANGED <<currentTime, activeIdx>>
  /\ UNCHANGED <<session, playbackMode, isPlaying, isSourceReady, audioRef,
                 audioTime, speed, audioPaused, audioEnv, pendingInit,
                 switches, mounted>>
  /\ UNCHANGED <<importVars, reviewVars, turnVars>>

\* A click on the progress bar at the fraction p = k / ClickSteps.
ProgressClick ==
  /\ mounted
  /\ \E k \in 0..ClickSteps :
       audioTime' = IF audioRef
                    THEN ClampTime(SeekByClick(k, ClickSteps, Duration))
                    ELSE audioTime
  /\ UNCHANGED <<session, playbackMode, isPlaying, currentTime, activeIdx,
                 isSourceReady, audioRef, speed, audioPaused, audioEnv,
                 pendingInit, switches, mounted>>
  /\ UNCHANGED <<importVars, reviewVars, turnVars>>

\* The replay-15 and forward-15 buttons.
SeekBack ==
  /\ mounted
  /\ audioTime' = IF audioRef THEN ClampTime(audioTime - SEEK_STEP) ELSE audioTime
  /\ UNCHANGED <<session, playbackMode, isPlaying, currentTime, activeIdx,
                 isSourceReady, audioRef, speed, audioPaused, audioEnv,
                 pendingInit, switches, mounted>>
  /\ UNCHANGED <<importVars, reviewVars, turnVars>>

SeekForward ==
  /\ mounted
  /\ audioTime' = IF audioRef THEN ClampTime(audioTime + SEEK_STEP) ELSE audioTime
  /\ UNCHANGED <<session, playbackMode, isPlaying, currentTime, activeIdx,
                 isSourceReady, audioRef, speed, audioPaused, audioEnv,
                 pendingInit, switches, mounted>>
  /\ UNCHANGED <<importVars, reviewVars, turnVars>>

\* A tap on a transcript line.
JumpToSegment ==
  /\ mounted
  /\ \E idx \in 0..(Len(Segments) - 1) :
       IF JumpGuard(audioRef, isSourceReady)
       THEN LET t == ClampTime(JumpTarget(Segments, idx))
            IN /\ activeIdx' = idx
               /\ isPlaying' = TRUE
               /\ audioPaused' = (IF ~isPlaying
                                  THEN EffectPaused(isSourceReady, TRUE)
                                  ELSE audioPaused)
               /\ audioTime' = (IF ~isPlaying
                                THEN EffectTime(isSourceReady, TRUE, t)
                                ELSE t)
       ELSE UNCHANGED <<audioTime, activeIdx, isPlaying, audioPaused>>
  /\ UNCHANGED <<session, playbackMode, currentTime, isSourceReady, audioRef,
                 speed, audioEnv, pendingInit, switches, mounted>>
  /\ UNCHANGED <<importVars, reviewVars, turnVars>>

\* The route parameter names another session while the player stays mounted:
\* the state is kept, the cleanup of the old init effect pauses its element,
\* and the new init effect calls init().
SwitchSession ==
  /\ mounted
  /\ switches < MaxSwitches
  /\ \E s \in (1..Len(PlayerSessions)) \ {session} :
       /\ session' = s
       /\ pendingInit' = pendingInit \cup
            {[gen |-> switches + 1, session |-> s,
              isSourceReady |-> isSourceReady, isPlaying |-> isPlaying]}
  /\ switches' = switches + 1
  /\ audioPaused' = (IF audioRef /\ audioEnv.gen = switches THEN TRUE
                     ELSE audioPaused)
  /\ UNCHANGED <<playbackMode, isPlaying, currentTime, activeIdx,
                 isSourceReady, audioRef, audioTime, speed, audioEnv,
                 mounted>>
  /\ UNCHANGED <<importVars, reviewVars, turnVars>>

\* The back button leaves the player: every effect's cleanup runs.  The
\* cleanup of the last init effect pauses the element that effect created, and
\* the cleanup of sync cancels the animation frame; audioRef.current is left
\* as it is.
Unmount ==
  /\ mounted
  /\ mounted' = FALSE
  /\ audioPaused' = (IF audioRef /\ audioEnv.gen = switches THEN TRUE
                     ELSE audioPaused)
  /\ UNCHANGED <<session, playbackMode, isPlaying, currentTime, activeIdx,
                 isSourceReady, audioRef, audioTime, speed, audioEnv,
                 pendingInit, switches>>
  /\ UNCHANGED <<importVars, reviewVars, turnVars>>

\* The speed button is a step of SpecToken below: its only effect on the
\* clock, the re-run of the play/pause effect, is what two presses of the play
\* button do.
PlayerNext ==
  \/ AudioLoaded
  \/ AudioMissing
  \/ CanPlay
  \/ TogglePlay
  \/ TogglePlaybackMode
  \/ Advance
  \/ Ended
  \/ Tick
  \/ ProgressClick
  \/ SeekBack
  \/ SeekForward
  \/ JumpToSegment
  \/ SwitchSession
  \/ Unmount

SpecPlayer == PlayerInit /\ [][PlayerNext]_vars

\* The player started in any mode the PlaybackMode type declares; no control
\* of the player selects NATURAL.
PlayerInitAnyMode ==
  \E m \in {"LIST_LOOP", "SINGLE_LOOP", "NATURAL"} :
    /\ playbackMode = m
    /\ pc = "idle"
    /\ variant = "current"
    /\ method = "TURNS"
    /\ ruleValue = 1
    /\ isOnline = TRUE
    /\ provider = "gemini"
    /\ hasApiKey = FALSE
    /\ deepgramApiKey = FALSE
    /\ audioDuration = 0
    /\ words = <<>>
    /\ i = 0
    /\ currentTokens = <<>>
    /\ currentStart = 0
    /\ speakerChangesInSegment = 0
    /\ lastSpeaker = 0
    /\ segments = <<>>
    /\ aiOutcome = "none"
    /\ addedSession = NoSession
    /\ session \in 1..Len(PlayerSessions)
    /\ isPlaying = FALSE
    /\ currentTime = 0
    /\ activeIdx = 0
    /\ isSourceReady = FALSE
    /\ audioRef = FALSE
    /\ audioTime = 0
    /\ speed = SpeedInitial
    /\ audioPaused = TRUE
    /\ audioEnv = NoEnv
    /\ pendingInit = {[gen |-> 0, session |-> session, isSourceReady |-> FALSE,
                       isPlaying |-> FALSE]}
    /\ switches = 0
    /\ mounted = TRUE
    /\ ReviewUnmounted

SpecAnyMode == PlayerInitAnyMode /\ [][PlayerNext]_vars

\* activeTokenIdx as a function of its dependencies [currentTime, activeIdx,
\* segments, speed]: a render of a session with no audio element, whose
\* current time and active index are set to any values.
TokenInit ==
  /\ pc = "idle"
  /\ variant = "current"
  /\ method = "TURNS"
  /\ ruleValue = 1
  /\ isOnline = TRUE
  /\ provider = "gemini"
  /\ hasApiKey = FALSE
  /\ deepgramApiKey = FALSE
  /\ audioDuration = 0
  /\ words = <<>>
  /\ i = 0
  /\ currentTokens = <<>>
  /\ currentStart = 0
  /\ speakerChangesInSegment = 0
  /\ lastSpeaker = 0
  /\ segments = <<>>
  /\ aiOutcome = "none"
  /\ addedSession = NoSession
  /\ session \in 1..Len(PlayerSessions)
  /\ playbackMode = "LIST_LOOP"
  /\ isPlaying = FALSE
  /\ currentTime = 0
  /\ activeIdx = 0
  /\ isSourceReady = FALSE
  /\ audioRef = FALSE
  /\ audioTime = 0
  /\ speed = SpeedInitial
  /\ audioPaused = TRUE
  /\ audioEnv = NoEnv
  /\ pendingInit = {}
  /\ switches = 0
  /\ mounted = TRUE
  /\ ReviewUnmounted

\* setCurrentTime(time)
TokenSetTime ==
  /\ mounted
  /\ \E t \in 0..Duration : currentTime' = t
  /\ UNCHANGED <<session, playbackMode, isPlaying, activeIdx, isSourceReady,
                 audioRef, audioTime, speed, audioPaused, audioEnv,
                 pendingInit, switches, mounted>>
  /\ UNCHANGED <<importVars, reviewVars, turnVars>>

\* setActiveIdx(idx)
TokenSetIdx ==
  /\ mounted
  /\ \E idx \in 0..(Len(Segments) - 1) : activeIdx' = idx
  /\ UNCHANGED <<session, playbackMode, isPlaying, currentTime, isSourceReady,
                 audioRef, audioTime, speed, audioPaused, audioEnv,
                 pendingInit, switches, mounted>>
  /\ UNCHANGED <<importVars, reviewVars, turnVars>>

TokenNext ==
  \/ TokenSetTime
  \/ TokenSetIdx
  \/ CycleSpeed

SpecToken == TokenInit /\ [][TokenNext]_vars

\* ------------------------------------------------------ the review session
\* Review times are whole days: Date.now() and nextReview of the code are
\* these numbers times MsPerDay.
REVIEW_INTERVALS == <<0, 1, 2, 4, 7, 15, 30, 90>>

MsPerDay == 24 * 60 * 60 * 1000

Stages == 0..(Len(REVIEW_INTERVALS) - 1)

\* known ? Math.min(word.stage + 1, REVIEW_INTERVALS.length - 1) : 0
ReviewStage(stage, known) ==
  IF known THEN Min(stage + 1, Len(REVIEW_INTERVALS) - 1) ELSE 0

\* Date.now() + REVIEW_INTERVALS[newStage] * 24 * 60 * 60 * 1000, in days
NextReviewSameStage(stage, newStage, t) == t + REVIEW_INTERVALS[stage + 1]

NextReview(stage, newStage, t) == t + REVIEW_INTERVALS[newStage + 1]

\* savedWords.filter(w => w.nextReview <= Date.now()), as the positions kept
RECURSIVE DueFrom(_, _, _)
DueFrom(ws, k, t) ==
  IF k > Len(ws) THEN <<>>
  ELSE IF ws[k].nextReview <= t THEN <<k>> \o DueFrom(ws, k + 1, t)
  ELSE DueFrom(ws, k + 1, t)

DueWordsUnfiltered(ws, t) == [k \in 1..Len(ws) |-> k]

DueWords(ws, t) == DueFrom(ws, 1, t)

\* The review screen reads dueWords[testIdx].word: the render throws when
\* that element is undefined.
RenderFails(mode, due, idx) == mode /\ Len(due) > 0 /\ idx >= Len(due)

\* The review screen is on display.
ReviewShown == testMode /\ Len(dueWords) > 0 /\ ~renderFailed

\* VocabularyView is mounted on the stored vocabulary.
ReviewInit ==
  /\ pc = "idle"
  /\ variant = "current"
  /\ method = "TURNS"
  /\ ruleValue = 1
  /\ isOnline = TRUE
  /\ provider = "gemini"
  /\ hasApiKey = FALSE
  /\ deepgramApiKey = FALSE
  /\ audioDuration = 0
  /\ words = <<>>
  /\ i = 0
  /\ currentTokens = <<>>
  /\ currentStart = 0
  /\ speakerChangesInSegment = 0
  /\ lastSpeaker = 0
  /\ segments = <<>>
  /\ aiOutcome = "none"
  /\ addedSession = NoSession
  /\ PlayerUnmounted
  /\ turnSegments = <<>>
  /\ groupedTurns = <<>>
  /\ now = 0
  /\ \E n \in 0..MaxSavedWords :
       savedWords \in [1..n -> [stage : Stages, nextReview : {0, 1}]]
  /\ testMode = FALSE
  /\ testIdx = 0
  /\ showAnswer = FALSE
  /\ dueWords = DueWords(savedWords, now)
  /\ renderFailed = FALSE

\* The Begin Review button; it is disabled while nothing is due.
BeginReview ==
  /\ ~renderFailed
  /\ ~ReviewShown
  /\ Len(dueWords) > 0
  /\ testMode' = TRUE
  /\ renderFailed' = RenderFails(TRUE, dueWords, testIdx)
  /\ UNCHANGED <<savedWords, now, testIdx, showAnswer, dueWords>>
  /\ UNCHANGED <<importVars, playerVars, turnVars>>

\* The close button of the review screen.
CloseReview ==
  /\ ReviewShown
  /\ testMode' = FALSE
  /\ UNCHANGED <<savedWords, now, testIdx, showAnswer, dueWords, renderFailed>>
  /\ UNCHANGED <<importVars, playerVars, turnVars>>

\* Reveal Answer
RevealAnswer ==
  /\ ReviewShown
  /\ ~showAnswer
  /\ showAnswer' = TRUE
  /\ UNCHANGED <<savedWords, now, testMode, testIdx, dueWords, renderFailed>>
  /\ UNCHANGED <<importVars, playerVars, turnVars>>

\* handleReviewAction(known): updateWord replaces the record, dueWords is
\* recomputed and the view renders again.
ReviewAction(known) ==
  /\ ReviewShown
  /\ showAnswer
  /\ LET word == dueWords[testIdx + 1]
         newStage == ReviewStage(savedWords[word].stage, known)
     IN savedWords' =
          [savedWords EXCEPT ![word] =
             [stage |-> newStage,
              nextReview |-> NextReview(savedWords[word].stage, newStage, now)]]
  /\ dueWords' = DueWords(savedWords', now)
  /\ IF testIdx < Len(dueWords) - 1
     THEN /\ testIdx' = testIdx + 1
          /\ showAnswer' = FALSE
          /\ UNCHANGED testMode
     ELSE /\ testMode' = FALSE
          /\ testIdx' = 0
          /\ UNCHANGED showAnswer
  /\ renderFailed' = RenderFails(testMode', dueWords', testIdx')
  /\ UNCHANGED now
  /\ UNCHANGED <<importVars, playerVars, turnVars>>

\* The Forgot and Knew it buttons.
Forgot == ReviewAction(FALSE)

KnewIt == ReviewAction(TRUE)

\* A day passes.
DayPasses ==
  /\ now < MaxDays
  /\ now' = now + 1
  /\ UNCHANGED <<savedWords, testMode, testIdx, showAnswer, dueWords,
                 renderFailed>>
  /\ UNCHANGED <<importVars, playerVars, turnVars>>

\* The user leaves the vocabulary and opens it again: a new VocabularyView.
OpenVocabulary ==
  /\ ~renderFailed
  /\ testMode' = FALSE
  /\ testIdx' = 0
  /\ showAnswer' = FALSE
  /\ dueWords' = DueWords(savedWords, now)
  /\ UNCHANGED <<savedWords, now, renderFailed>>
  /\ UNCHANGED <<importVars, playerVars, turnVars>>

ReviewNext ==
  \/ BeginReview
  \/ CloseReview
  \/ RevealAnswer
  \/ Forgot
  \/ KnewIt
  \/ DayPasses
  \/ OpenVocabulary

SpecReview == ReviewInit /\ [][ReviewNext]_vars

\* ------------------------------------------------------- the turn grouping
\* Speakers of the segments handed to the grouping; 0 stands for a segment
\* without a speaker.
TurnSpeakers == {0, 1, 2}

\* seg.speaker || 1
SpeakerOrOneRaw(seg) == seg.speaker

SpeakerOrOne(seg) == IF seg.speaker = 0 THEN 1 ELSE seg.speaker

\* The body of segments.forEach((seg, idx) => ...) from the k-th segment on;
\* originalIdx is 0-based.
RECURSIVE GroupFrom(_, _, _)
GroupFrom(segs, k, turns) ==
  IF k > Len(segs) THEN turns
  ELSE LET seg == segs[k]
           speaker == SpeakerOrOne(seg)
           segWithIdx == [speaker |-> seg.speaker, originalIdx |-> k - 1]
       IN IF Len(turns) > 0 /\ turns[Len(turns)].speaker = speaker
          THEN GroupFrom(segs, k + 1,
                 [turns EXCEPT ![Len(turns)].segments = Append(@, segWithIdx)])
          ELSE GroupFrom(segs, k + 1,
                 Append(turns, [speaker |-> speaker,
                                segments |-> <<segWithIdx>>]))

GroupedTurns(segs) == GroupFrom(segs, 1, <<>>)

\* groupedTurns as a function of its dependency [segments]: the player
\* renders a session without segments, and then sessions with any segments.
TurnsInit ==
  /\ pc = "idle"
  /\ variant = "current"
  /\ method = "TURNS"
  /\ ruleValue = 1
  /\ isOnline = TRUE
  /\ provider = "gemini"
  /\ hasApiKey = FALSE
  /\ deepgramApiKey = FALSE
  /\ audioDuration = 0
  /\ words = <<>>
  /\ i = 0
  /\ currentTokens = <<>>
  /\ currentStart = 0
  /\ speakerChangesInSegment = 0
  /\ lastSpeaker = 0
  /\ segments = <<>>
  /\ aiOutcome = "none"
  /\ addedSession = NoSession
  /\ PlayerUnmounted
  /\ ReviewUnmounted

\* A render with another segment list: the useMemo runs again.
RenderSegments ==
  /\ \E n \in 0..MaxTurnSegments :
       \E segs \in [1..n -> [speaker : TurnSpeakers]] :
         /\ turnSegments' = segs
         /\ groupedTurns' = GroupedTurns(segs)
  /\ UNCHANGED <<importVars, playerVars, reviewVars>>

TurnsNext == RenderSegments

SpecTurns == TurnsInit /\ [][TurnsNext]_vars

\* ================================================================== claims
\* The word walk has processed every word of a Deepgram response.
WalkDone == pc = "fallback" /\ aiOutcome = "ok" /\ provider = "deepgram"

\* The fallback slicer produced the pending segment list.
FallbackRan == pc = "save" /\ Len(segments) > 0 /\ segments[1].id[1] = "manual"

RECURSIVE FlattenTokens(_)
FlattenTokens(segs) ==
  IF Len(segs) = 0 THEN <<>>
  ELSE SplitWhitespace(segs[1].text) \o FlattenTokens(Tail(segs))

InputTokens(ws) == [k \in 1..Len(ws) |-> Token(ws[k])]

Ordered(segs) ==
  \A k \in 1..(Len(segs) - 1) :
    /\ segs[k].startTime <= segs[k + 1].startTime
    /\ segs[k].endTime <= segs[k + 1].startTime

\* The token lists of the maximal same-speaker runs of ws[k..].
RECURSIVE Runs(_, _)
Runs(ws, k) ==
  IF k > Len(ws) THEN <<>>
  ELSE LET rest == Runs(ws, k + 1)
       IN IF k < Len(ws) /\ ws[k].speaker = ws[k + 1].speaker
          THEN <<(<<Token(ws[k])>> \o rest[1])>> \o Tail(rest)
          ELSE <<(<<Token(ws[k])>>)>> \o rest

\* Number of tokens in segs[1..k].
RECURSIVE TokensUpTo(_, _)
TokensUpTo(segs, k) ==
  IF k = 0 THEN 0
  ELSE TokensUpTo(segs, k - 1) + Len(SplitWhitespace(segs[k].text))

FirstWordOf(segs, ws, k) == ws[TokensUpTo(segs, k - 1) + 1]

LastWordOf(segs, ws, k) == ws[TokensUpTo(segs, k)]

Mixed(segs, ws, k) ==
  \E a, b \in (TokensUpTo(segs, k - 1) + 1)..TokensUpTo(segs, k) :
    ws[a].speaker # ws[b].speaker

\* Speaker changes among ws[from..to], each word compared with the one before.
SpeakerChanges(ws, from, to) ==
  Cardinality({k \in (from + 1)..to : ws[k].speaker # ws[k - 1].speaker})

\* C1: under Turns(n), the texts of the output segments, split on whitespace
\* and concatenated in order, are exactly the input words in input order; the
\* pending segment is flushed at the end of the input.
C1_WordsConserved ==
  (WalkDone /\ method = "TURNS") =>
    FlattenTokens(segments) = InputTokens(words)

C1_Witness ==
  /\ WalkDone /\ method = "TURNS" /\ variant = "current"
  /\ Len(words) >= 4 /\ Len(segments) >= 2
  /\ Len(SplitWhitespace(segments[Len(segments)].text)) >= 2

\* C2: a segment list of the word walk (either policy) or of the fallback
\* slicer has non-decreasing start times and no overlap, and it is not empty
\* after the fallback step when the duration is positive.
C2_OrderedNoOverlap ==
  /\ (provider = "deepgram" \/ aiOutcome # "ok") => Ordered(segments)
  /\ addedSession.stored /\ (provider = "deepgram" \/ aiOutcome # "ok")
       => Ordered(addedSession.segments)
  /\ (pc = "save" /\ audioDuration > 0) => Len(segments) > 0

C2_Witness ==
  /\ pc = "save" /\ provider = "deepgram" /\ aiOutcome = "ok"
  /\ method = "DURATION" /\ audioDuration > 0
  /\ Len(segments) >= 3
  /\ segments[1].endTime < segments[2].startTime

\* C3: under Turns(1) the current walk produces exactly one segment per
\* maximal run of same-speaker words, holding exactly that run's words.
C3_OneSegmentPerRun ==
  (WalkDone /\ variant = "current" /\ method = "TURNS" /\ ruleValue = 1) =>
    [k \in 1..Len(segments) |-> SplitWhitespace(segments[k].text)] = Runs(words, 1)

\* Speakers 0,0,1,1,0 (the spec's 1,1,2,2,1) give three segments.
C3_Witness ==
  /\ WalkDone /\ variant = "current" /\ method = "TURNS" /\ ruleValue = 1
  /\ [k \in 1..Len(words) |-> words[k].speaker] = <<0, 0, 1, 1, 0>>
  /\ Len(segments) = 3

\* C4: under Duration(m) no segment of the current walk is wider than m*60
\* seconds, however long the stream is.
C4_DurationBounded ==
  (variant = "current" /\ provider = "deepgram" /\ method = "DURATION") =>
    \A k \in 1..Len(segments) :
      segments[k].endTime - segments[k].startTime <= ruleValue * 60

\* A single-speaker stream spanning at least 150 s, cut into at least 3.
C4_Witness ==
  /\ WalkDone /\ variant = "current" /\ method = "DURATION" /\ ruleValue = 1
  /\ Len(words) > 0
  /\ \A k \in 1..Len(words) : words[k].speaker = words[1].speaker
  /\ words[Len(words)].end - words[1].start >= 150
  /\ Len(segments) >= 3

\* The walk is about to process a word that is the n-th speaker change since
\* the pending segment started.
NthChangeNext ==
  /\ pc = "walk" /\ variant = "current" /\ method = "TURNS"
  /\ i > 0 /\ i < Len(words)
  /\ words[i + 1].speaker # words[i].speaker
  /\ SpeakerChanges(words, i - Len(currentTokens) + 1, i + 1) = ruleValue

\* C5: under Turns(n), when the n-th speaker change since the pending segment
\* started is at word w, the closed segment ends at the previous word's end
\* and does not hold w, the next segment starts at w's start with w as its
\* first word, and the change counter restarts at 0.
C5_SplitAtNthChange ==
  [][ (NthChangeNext /\ aiOutcome' # "threw") =>
        LET w == words[i + 1]
            closed == segments'[Len(segments) + 1]
        IN /\ Len(segments') > Len(segments)
           /\ closed.startTime = currentStart
           /\ closed.endTime = words[i].end
           /\ SplitWhitespace(closed.text) = currentTokens
           /\ IF i + 1 < Len(words)
              THEN /\ Len(segments') = Len(segments) + 1
                   /\ currentStart' = w.start
                   /\ currentTokens' = <<Token(w)>>
                   /\ speakerChangesInSegment' = 0
              ELSE /\ Len(segments') = Len(segments) + 2
                   /\ segments'[Len(segments) + 2].startTime = w.start
                   /\ SplitWhitespace(segments'[Len(segments) + 2].text)
                        = <<Token(w)>> ]_vars

\* Just after a split at the second change under Turns(2).
C5_Witness ==
  /\ pc = "walk" /\ variant = "current" /\ method = "TURNS" /\ ruleValue = 2
  /\ i >= 3 /\ Len(segments) = 1
  /\ Len(SplitWhitespace(segments[1].text)) = i - 1
  /\ segments[1].endTime = words[i - 1].end
  /\ currentStart = words[i].start
  /\ currentTokens = <<Token(words[i])>>
  /\ speakerChangesInSegment = 0

\* C6 as stated: a segment holding words of more than one speaker carries the
\* speaker of its first word.
C6_FirstWordSpeaker ==
  WalkDone =>
    \A k \in 1..Len(segments) :
      Mixed(segments, words, k) =>
        segments[k].speaker = FirstWordOf(segments, words, k).speaker + 1

\* C6 amended: a segment holding words of more than one speaker carries the
\* speaker of its last word (the provider's 0-based id plus 1).
C6_LastWordSpeaker ==
  WalkDone =>
    \A k \in 1..Len(segments) :
      Mixed(segments, words, k) =>
        segments[k].speaker = LastWordOf(segments, words, k).speaker + 1

C6_Witness ==
  /\ WalkDone /\ variant = "current" /\ Len(segments) >= 2
  /\ Mixed(segments, words, 1)
  /\ FirstWordOf(segments, words, 1).speaker # LastWordOf(segments, words, 1).speaker
  /\ segments[1].speaker = LastWordOf(segments, words, 1).speaker + 1

\* C7: after the fallback step the segment list is never empty; with a
\* duration of 0 the slicer slices the assumed 300 s instead.
C7_FallbackNeverEmpty ==
  /\ pc \in {"save", "done", "failed"} => Len(segments) >= 1
  /\ (FallbackRan /\ audioDuration = 0) =>
       segments[Len(segments)].endTime = 300

C7_Witness ==
  /\ FallbackRan /\ audioDuration = 0 /\ aiOutcome \in {"skipped", "empty", "threw"}
  /\ Len(segments) >= 5

\* C8: the fallback slicer's output starts at 0, is contiguous, has the fixed
\* width in every segment but possibly the last, ends at the duration (the
\* assumed 300 s for a duration of 0), and has speaker 1 throughout.
C8_FallbackTiles ==
  FallbackRan =>
    LET n == Len(segments)
        width == IF method = "DURATION" THEN ruleValue * 60
                 ELSE IF variant = "legacy" THEN 45 ELSE 30
        total == IF audioDuration = 0 THEN 300 ELSE audioDuration
    IN /\ segments[1].startTime = 0
       /\ \A k \in 1..(n - 1) :
            /\ segments[k + 1].startTime = segments[k].endTime
            /\ segments[k].endTime - segments[k].startTime = width
       /\ segments[n].endTime = total
       /\ segments[n].endTime - segments[n].startTime <= width
       /\ segments[n].endTime > segments[n].startTime
       /\ \A k \in 1..n : segments[k].speaker = 1

\* A duration that is no multiple of the width: the last slice is shorter.
C8_Witness ==
  /\ FallbackRan /\ audioDuration = 45 /\ method = "TURNS" /\ variant = "current"
  /\ Len(segments) = 2
  /\ segments[2].endTime - segments[2].startTime = 15

\* C9: when transcription was unavailable (not attempted, threw, or yielded
\* nothing), the stored session has exactly the fallback slicer's segments.
C9_UnavailableStoresFallback ==
  (addedSession.stored /\ aiOutcome \in {"skipped", "threw", "empty"}) =>
    addedSession.segments =
      FallbackSlice(variant, 0, AssumedDuration(audioDuration),
                    SliceSize(variant, method, ruleValue))

\* The segments of the player's session that contain time t (0-based).
Containing(t) ==
  {k \in 0..(Len(Segments) - 1) :
     Segments[k + 1].startTime <= t /\ t < Segments[k + 1].endTime}

\* C10: a tick while playing, with the clock outside the active segment: the
\* active index becomes the index of a segment containing the clock time when
\* there is one, and is left unchanged when there is none.
C10_TickCorrectsOrKeeps ==
  [][ (Tick /\ audioRef /\ isPlaying /\ activeIdx < Len(Segments)) =>
        LET seg == Segments[activeIdx + 1]
            outside == audioTime < seg.startTime \/ audioTime >= seg.endTime
        IN /\ (outside /\ Containing(audioTime) # {}) =>
                activeIdx' \in Containing(audioTime)
           /\ Containing(audioTime) = {} => activeIdx' = activeIdx
           /\ currentTime' = audioTime ]_vars

\* A tick has sampled a clock time in the gap between the two segments and
\* the active index stayed on the first.
C10_Witness ==
  /\ session = 2 /\ isPlaying /\ audioRef
  /\ audioTime = 3 /\ currentTime = 3
  /\ Containing(audioTime) = {}
  /\ activeIdx = 0

\* The element in audioRef was loaded for the player's current session.
OwnAudio == audioRef /\ audioEnv.session = session

Speeds == {SpeedMin + k * SpeedStep : k \in 0..((SpeedMax - SpeedMin) \div SpeedStep)}

\* C11: end of media in LIST_LOOP with a ready source and an active index
\* that is not the last: the active index grows by one, the clock is at that
\* segment's start and playback is playing.
C11_EndedAdvances ==
  [][ (Ended /\ playbackMode = "LIST_LOOP" /\ isSourceReady /\ OwnAudio
         /\ activeIdx < Len(Segments) - 1) =>
        /\ activeIdx' = activeIdx + 1
        /\ audioTime' = Segments[activeIdx + 2].startTime
        /\ isPlaying' ]_vars

\* C12: end of media in LIST_LOOP with the active index on the last segment
\* of the mounted player always has the same outcome: playback stops and the active index and the
\* clock stay.
C12_EndedAtLastStops ==
  [][ (Ended /\ mounted /\ playbackMode = "LIST_LOOP"
         /\ activeIdx = Len(Segments) - 1) =>
        /\ ~isPlaying'
        /\ audioPaused'
        /\ activeIdx' = activeIdx
        /\ audioTime' = audioTime ]_vars

\* Playback ran to the end of the media on the last segment and stopped.
C12_Witness ==
  /\ mounted
  /\ playbackMode = "LIST_LOOP" /\ OwnAudio /\ isSourceReady
  /\ activeIdx = Len(Segments) - 1
  /\ audioTime = MediaDuration /\ currentTime = MediaDuration - 1
  /\ ~isPlaying /\ audioPaused

\* C13: in SINGLE_LOOP, while playback proceeds without a jump or a mode
\* change, the active index never changes and the clock never runs past the
\* end of the active segment.
C13_SingleLoopRepeats ==
  [][ (playbackMode = "SINGLE_LOOP" /\ OwnAudio /\ isPlaying
         /\ activeIdx < Len(Segments) /\ (Tick \/ Advance \/ Ended)) =>
        /\ activeIdx' = activeIdx
        /\ (audioTime <= Segments[activeIdx + 1].endTime =>
              audioTime' <= Segments[activeIdx + 1].endTime) ]_vars

\* C14: end of media in NATURAL mode of the mounted player pauses playback
\* and leaves the active index and the clock where they are.
C14_EndedNaturalPauses ==
  [][ (Ended /\ mounted /\ playbackMode = "NATURAL") =>
        /\ ~isPlaying'
        /\ audioPaused'
        /\ activeIdx' = activeIdx
        /\ audioTime' = audioTime ]_vars

C14_Witness ==
  /\ mounted
  /\ playbackMode = "NATURAL" /\ OwnAudio /\ isSourceReady
  /\ audioTime = MediaDuration /\ currentTime = MediaDuration - 1
  /\ activeIdx < Len(Segments) - 1
  /\ ~isPlaying /\ audioPaused

C16_NotReadyNoOps ==
  [][ (~isSourceReady /\ (Tick \/ JumpToSegment \/ ProgressClick)) =>
        UNCHANGED <<activeIdx, currentTime, isPlaying, audioTime>> ]_vars

\* C17: for an active segment with text the active-token index lies in
\* [0, tokenCount - 1] at every current time and speed; it is -1 only when
\* the active segment has no text.
C17_TokenIndexInRange ==
  activeIdx < Len(Segments) =>
    LET text == Segments[activeIdx + 1].text
        n == Len(TextTokens(text))
    IN /\ (activeTokenIdx = 0 - 1 => Len(text) = 0)
       /\ Len(text) > 0 =>
            \A t \in 0..Duration : \A spd \in Speeds :
              ActiveTokenIdx(Segments, activeIdx, t, spd) \in 0..(n - 1)

\* The current time is before the start of a two-token active segment.
C17_Witness ==
  /\ activeIdx = 2 /\ Len(Segments) = 3
  /\ currentTime < Segments[3].startTime
  /\ Len(TextTokens(Segments[3].text)) = 2
  /\ activeTokenIdx = 0
  /\ speed = SpeedMax

\* C18: for a fixed active segment and speed the active-token index never
\* decreases as the current time grows.
C18_TokenIndexMonotonic ==
  activeIdx < Len(Segments) =>
    \A t1, t2 \in 0..Duration :
      t1 <= t2 => ActiveTokenIdx(Segments, activeIdx, t1, speed)
                    <= ActiveTokenIdx(Segments, activeIdx, t2, speed)

\* The highlight has moved on to the second token of the active segment.
C18_Witness ==
  /\ activeIdx < Len(Segments)
  /\ currentTime > Segments[activeIdx + 1].startTime
  /\ currentTime < Segments[activeIdx + 1].endTime
  /\ ActiveTokenIdx(Segments, activeIdx, Segments[activeIdx + 1].startTime,
                    speed) = 0
  /\ activeTokenIdx = 1

\* C19: a click on the progress bar at the fraction p puts the clock of the
\* session's audio at p * session.duration (in whole seconds) and changes
\* neither the active index, the loop mode, the speed, the playing flag nor
\* the current time shown.
C19_ClickSeeksOnly ==
  [][ (ProgressClick /\ OwnAudio) =>
        /\ \E k \in 0..ClickSteps :
             /\ audioTime' * ClickSteps <= k * Duration
             /\ k * Duration < (audioTime' + 1) * ClickSteps
        /\ UNCHANGED <<activeIdx, playbackMode, speed, isPlaying,
                       currentTime>> ]_vars

\* A paused player whose clock was moved out of the active segment.
C19_Witness ==
  /\ OwnAudio /\ ~isPlaying /\ switches = 0
  /\ activeIdx = 0 /\ currentTime = 0
  /\ audioTime > Segments[1].endTime /\ audioTime < Duration

\* C20: whatever ticks, jumps, ends of media and session switches happened,
\* the active index is an index of the current session's segment list, and
\* the element that plays is the current session's.
C20_IndexWithinSession ==
  /\ activeIdx \in 0..(Len(Segments) - 1)
  /\ AudioPlaying => OwnAudio

\* The cleanup of an init effect has run since the element in audioRef was
\* installed, or the player is gone.
StaleAudio == audioRef /\ (audioEnv.gen < switches \/ ~mounted)

\* C21: a session switch or the unmount leaves no audio element in the shared
\* clock reference, and once the reference is stale no animation frame and no
\* end of media changes the active index, the current time or the playing
\* flag.
C21_CleanupReleasesClock ==
  [][ /\ (SwitchSession \/ Unmount) => ~audioRef'
      /\ ((Tick \/ Ended) /\ StaleAudio) =>
           UNCHANGED <<isPlaying, currentTime, activeIdx>> ]_vars

\* The record the review screen shows.
CurrentWord == dueWords[testIdx + 1]

\* C22: Knew it moves the reviewed record to stage min(stage + 1, 7) and
\* Forgot to stage 0; its next review is INTERVAL_DAYS[new stage] days after
\* now with INTERVAL_DAYS = [0,1,2,4,7,15,30,90] and a day of 86,400,000 ms;
\* every record's stage stays in 0..7.
C22_ReviewSchedule ==
  /\ [](\A k \in 1..Len(savedWords) : savedWords[k].stage \in 0..7)
  /\ [](MsPerDay = 86400000)
  /\ [][ LET old == savedWords[CurrentWord]
             new == savedWords'[CurrentWord]
             days == <<0, 1, 2, 4, 7, 15, 30, 90>>
         IN /\ KnewIt => new.stage = (IF old.stage < 7 THEN old.stage + 1 ELSE 7)
            /\ Forgot => new.stage = 0
            /\ (KnewIt \/ Forgot) =>
                 new.nextReview = now + days[new.stage + 1] ]_vars

\* A record answered Knew it at stage 6 or 7: it is at the last stage and due
\* in 90 days (a stored record is due today or tomorrow).
C22_Witness ==
  \E k \in 1..Len(savedWords) :
    /\ savedWords[k].stage = 7
    /\ savedWords[k].nextReview = now + 90

\* C23: the record on the review screen is due (nextReview <= now), a review
\* action changes only a record that is due, and the review starts only while
\* some record is due.
C23_OnlyDueReviewed ==
  /\ [](ReviewShown => savedWords[CurrentWord].nextReview <= now)
  /\ [][ /\ \A k \in 1..Len(savedWords) :
              savedWords'[k] # savedWords[k] => savedWords[k].nextReview <= now
         /\ (testMode' /\ ~testMode) =>
              \E k \in 1..Len(savedWords) : savedWords[k].nextReview <= now
       ]_vars

\* The second due record is on the review screen a day after the vocabulary
\* was stored, the first having been answered Forgot.
C23_Witness ==
  /\ ReviewShown
  /\ testIdx = 1
  /\ now > 0
  /\ savedWords[dueWords[1]] = [stage |-> 0, nextReview |-> now]

\* C24: the speed button adds 0.25 and goes back to 0.5 when the sum would
\* exceed 2.0; from 1.0 the speed is always one of 0.5, 0.75, ..., 2.0, and
\* seven presses from 1.0 pass through every one of them.
C24_SpeedCycle ==
  /\ [](speed \in {50, 75, 100, 125, 150, 175, 200} /\ speed > 0)
  /\ [][CycleSpeed => speed' = (IF speed + 25 > 200 THEN 50 ELSE speed + 25)]_vars
  /\ [](LET cycle(s) == IF s + 25 > 200 THEN 50 ELSE s + 25
        IN {100, cycle(100), cycle(cycle(100)), cycle(cycle(cycle(100))),
            cycle(cycle(cycle(cycle(100)))),
            cycle(cycle(cycle(cycle(cycle(100))))),
            cycle(cycle(cycle(cycle(cycle(cycle(100))))))}
           = {50, 75, 100, 125, 150, 175, 200})

\* The speed has gone round: raised to 2.0, back to 0.5 and up to 0.75.
C24_Witness == speed = 75

\* C25: for an active segment with text and a positive length, the
\* active-token index is the number of tokens whose cumulative weight
\* fraction (a token weighs its length plus one) lies below
\* progress = clamp01((currentTime - startTime + 0.08 * speed) / length),
\* at most tokenCount - 1: the first token whose fraction reaches progress.
\* It is 0 at progress 0 and tokenCount - 1 from the segment's end on.
C25_TokenIndexIsReference ==
  (activeIdx < Len(Segments) /\ Len(Segments[activeIdx + 1].text) > 0
     /\ Segments[activeIdx + 1].endTime > Segments[activeIdx + 1].startTime) =>
    LET seg == Segments[activeIdx + 1]
        tokens == TextTokens(seg.text)
        n == Len(tokens)
        den == (seg.endTime - seg.startTime) * 10000
        raw == (currentTime - seg.startTime) * 10000 + 8 * speed
        num == IF raw < 0 THEN 0 ELSE IF raw > den THEN den ELSE raw
        total == CumWeight(tokens, n)
        below == Cardinality({k \in 1..n :
                                CumWeight(tokens, k) * den < num * total})
    IN /\ activeTokenIdx = (IF below > n - 1 THEN n - 1 ELSE below)
       /\ num = 0 => activeTokenIdx = 0
       /\ currentTime >= seg.endTime => activeTokenIdx = n - 1

\* The current time is past the end of a two-token active segment: the
\* highlight is on its last token.
C25_Witness ==
  /\ activeIdx = 0
  /\ currentTime > Segments[1].endTime
  /\ Len(TextTokens(Segments[1].text)) = 2
  /\ activeTokenIdx = 1

\* The original indices of the members of the turns from the k-th turn on.
RECURSIVE MemberIndices(_, _)
MemberIndices(turns, k) ==
  IF k > Len(turns) THEN <<>>
  ELSE [m \in 1..Len(turns[k].segments) |-> turns[k].segments[m].originalIdx]
         \o MemberIndices(turns, k + 1)

C27_StoredSegmentsWellFormed ==
  addedSession.stored =>
    \A k \in 1..Len(addedSession.segments) :
      LET seg == addedSession.segments[k]
      IN /\ seg.endTime > seg.startTime
         /\ Len(seg.text) > 0
         /\ seg.speaker >= 1

\* C28: whenever the view renders the review screen (testMode with a
\* non-empty due list), the review cursor testIdx is an index of the due
\* list.
C28_CursorWithinDueList ==
  (testMode /\ Len(dueWords) > 0) => testIdx < Len(dueWords)

\* C29: a blob load that completes after the cleanup of its init effect (the
\* session was switched or the player unmounted meanwhile) does not put its
\* element into audioRef, and the element of such a load does not mark the
\* source ready.
C29_LateLoadIgnored ==
  [][ /\ \A p \in pendingInit :
           (pendingInit' = pendingInit \ {p} /\ (p.gen < switches \/ ~mounted))
             => UNCHANGED <<audioRef, audioEnv, audioTime, audioPaused>>
      /\ (audioRef /\ audioEnv.gen < switches) => isSourceReady' = isSourceReady
    ]_vars

====
